---------------------------- MODULE Spec2Model ----------------------------
(***************************************************************************)
(* AT28C256 programmer for the MEGA 2560 (severb/arduino).                 *)
(*                                                                         *)
(* The programmer is modelled at the granularity of one bus primitive per  *)
(* step: every call of setAddr, setData, readData, dataInputMode,          *)
(* dataOutputMode, chipEnable/Disable, readEnable/Disable and              *)
(* writeEnable/Disable made by the engine functions is one transition.     *)
(* A frame's pc is the line number, in the revision with the file loader,  *)
(* of the statement it executes next.                                      *)
(*                                                                         *)
(* The EEPROM itself is the environment: it latches a byte on the trailing *)
(* edge of a write pulse, commits the loaded page when chip-enable is      *)
(* released, answers reads with the complement of bit 7 of the last byte   *)
(* while its write cycle runs, and recognises the two software data        *)
(* protection sequences.                                                   *)
(***************************************************************************)
EXTENDS Integers, Sequences, FiniteSets, TLC

VARIABLES
    bus,      \* ports of the MCU: control lines, address, data, direction, LED
    dev,      \* the EEPROM: memory array, protection flag, write cycle
    stk,      \* call stack of the running command, innermost frame last
    obs,      \* what an observer of the running top-level call has seen
    opsLeft,  \* top-level calls the run may still make
    fastBaud, \* the baud rate flag of the serial console
    rx,       \* characters received on the serial line and not yet read
    cmd       \* the command buffer: the cells stored so far, the rest is 0

vars == <<bus, dev, stk, obs, opsLeft, fastBaud, rx, cmd>>

-----------------------------------------------------------------------------
(* Program constants *)

MAX_ADDR == 32767
BLOCK_SIZE == 64
BLOCK_COUNT == 512
PollBudget == 4096
PageLimit == 64
WordMod == 65536
ByteMod == 256

PIN_CE == 41
PIN_WE == 40
PIN_OE == 39
LOW == "LOW"
HIGH == "HIGH"
DDR_IN == 0
DDR_OUT == 255

(* Bounds of the exploration *)

MaxOps == 2
MaxBusy == 2
MaxSlowOps == 1
MaxProtOps == 3

Unbounded == 0 - 1

-----------------------------------------------------------------------------
(* The shapes of the state.  Every record is written with its fields in    *)
(* the order they have here.                                               *)

\* The ports after initPins: control lines high, data bus driven, latches 0.
\* ce, we and oe are the levels written to the three pins, outs the pins
\* among them that pinMode has made outputs.
BusInit ==
    [ce |-> HIGH, we |-> HIGH, oe |-> HIGH, ddr |-> DDR_OUT, port |-> 0,
     addrLo |-> 0, addrHi |-> 0, led |-> LOW, outs |-> {PIN_CE, PIN_WE, PIN_OE}]

\* A device with array m, protection p and a write cycle of at most t samples.
DevInit(m, p, t) ==
    [mem |-> m, prot |-> p, tWC |-> t, busy |-> 0, last |-> 0, pend |-> <<>>,
     wa |-> 0 - 1]

\* A call of function name about to execute the statement at line.
Frame(name, line) ==
    [fn |-> name, pc |-> line, a |-> 0, b |-> 0, data |-> <<>>, len |-> 0,
     i |-> 0, to |-> 0, counter |-> 0, inCycle |-> FALSE, r |-> FALSE,
     set |-> FALSE]

ObsInit ==
    [a |-> 0, b |-> 0, data |-> <<>>, len |-> 0, op |-> "none",
     entry |-> BusInit, entryDev |-> DevInit(0 :> 255, FALSE, 0),
     trace |-> <<>>, traced |-> FALSE, done |-> FALSE, ret |-> 0,
     prev |-> "none", pa |-> 0, pb |-> 0, fail |-> "none", at |-> 0]

-----------------------------------------------------------------------------
(* Bus Controller: the primitives, as functions of the port state *)

BusAddr(b) == (b.addrHi % 128) * 256 + b.addrLo

\* Faulty variant: the address is not clamped before it is put on the ports.
setAddrUnclamped(b, addr) ==
    LET hi == (addr \div ByteMod) % ByteMod
    IN  [b EXCEPT !.addrLo = addr % ByteMod,
                  !.addrHi = IF b.addrHi >= 128 \/ hi >= 128
                             THEN 128 + (hi % 128) ELSE hi]

setAddr(b, addr) ==
    LET a == IF addr > MAX_ADDR THEN MAX_ADDR ELSE addr
    IN  [b EXCEPT !.addrLo = a % ByteMod,
                  !.addrHi = (b.addrHi \div 128) * 128 + ((a \div ByteMod) % ByteMod)]

\* Faulty variant: the data bus is left driven.
dataInputModeSkipped(b) == b

dataInputMode(b) == [b EXCEPT !.ddr = DDR_IN]

\* Faulty variant: the data direction is left as it was.
dataOutputModeSkipped(b) == b

dataOutputMode(b) == [b EXCEPT !.ddr = DDR_OUT]

setData(b, data) == [b EXCEPT !.port = data]

chipEnable(b) == [b EXCEPT !.ce = LOW]

\* Faulty variant: chip-enable is left asserted.
chipDisableSkipped(b) == b

chipDisable(b) == [b EXCEPT !.ce = HIGH]

readEnable(b) == [b EXCEPT !.oe = LOW]

\* Faulty variant: output-enable is left asserted.
readDisableSkipped(b) == b

readDisable(b) == [b EXCEPT !.oe = HIGH]

writeEnable(b) == [b EXCEPT !.we = LOW]

\* Faulty variant: the write pulse is never ended.
writeDisableSkipped(b) == b

writeDisable(b) == [b EXCEPT !.we = HIGH]

ledWrite(b, level) == [b EXCEPT !.led = level]

\* pinMode(pin, OUTPUT)
pinMode(b, pin) == [b EXCEPT !.outs = @ \cup {pin}]

\* The control pins that are outputs and hold a low level.
DrivenLow(b) ==
    {pin \in b.outs : \/ pin = PIN_CE /\ b.ce = LOW
                      \/ pin = PIN_WE /\ b.we = LOW
                      \/ pin = PIN_OE /\ b.oe = LOW}

Idle(b) == b.ce = HIGH /\ b.we = HIGH /\ b.oe = HIGH

-----------------------------------------------------------------------------
(* The EEPROM.  Its memory is kept as runs: a function from the first      *)
(* address of each run of equal bytes to that byte (address 0 always       *)
(* starts a run), in the normal form with no two adjacent equal runs.      *)

MaxOf(S) == CHOOSE x \in S : \A y \in S : y <= x

MemRead(m, a) == m[MaxOf({d \in DOMAIN m : d <= a})]

\* The array after the page P of <<address, byte>> pairs is written to it, a
\* later pair of P overriding an earlier one at the same address.
MemWriteAll(m, P) ==
    LET K(d)   == {k \in 1..Len(P) : P[k][1] = d}
        At(d)  == IF K(d) = {} THEN MemRead(m, d) ELSE P[MaxOf(K(d))][2]
        A      == {P[k][1] : k \in 1..Len(P)}
        D1     == DOMAIN m \cup A \cup {d + 1 : d \in {e \in A : e < MAX_ADDR}}
        keep   == {d \in D1 : d = 0 \/ At(d) # At(MaxOf({e \in D1 : e < d}))}
    IN  [d \in keep |-> At(d)]

MemWrite(m, a, v) == MemWriteAll(m, << <<a, v>> >>)

MemFill(v) == 0 :> v

DevUnlockSeq == << <<21845, 170>>, <<10922, 85>>, <<21845, 128>>,
                   <<21845, 170>>, <<10922, 85>>, <<21845, 32>> >>

DevLockSeq == << <<21845, 170>>, <<10922, 85>>, <<21845, 160>> >>

WriteActive(b) == b.ce = LOW /\ b.we = LOW /\ b.oe = HIGH

DevDrives(b) == b.ce = LOW /\ b.oe = LOW /\ b.we = HIGH

FloatVals == {0, 255}

\* The page loaded since chip-enable fell is committed when it rises.
DevCommit(d) ==
    LET P == d.pend
        n == Len(P)
        started == [d EXCEPT !.pend = <<>>, !.busy = d.tWC, !.last = P[n][2]]
    IN  IF n = 0 THEN d
        ELSE IF P = DevUnlockSeq THEN [started EXCEPT !.prot = FALSE]
        ELSE IF n >= 3 /\ SubSeq(P, 1, 3) = DevLockSeq
             THEN [started EXCEPT !.prot = TRUE,
                                  !.mem = MemWriteAll(d.mem, SubSeq(P, 4, n))]
        ELSE IF d.prot THEN started
        ELSE [started EXCEPT !.mem = MemWriteAll(d.mem, P)]

\* What the device does when the ports go from b to b2; x is the level of a
\* floating data bus, should the device latch it.
DevReact(d, b, b2, x) ==
    LET d1 == IF ~WriteActive(b) /\ WriteActive(b2)
              THEN [d EXCEPT !.wa = BusAddr(b2)] ELSE d
        byte == IF b.ddr = DDR_OUT THEN b.port ELSE x
        d2 == IF WriteActive(b) /\ ~WriteActive(b2) /\ d1.wa >= 0
              THEN IF d1.busy # 0
                   THEN [d1 EXCEPT !.wa = 0 - 1]
                   ELSE [d1 EXCEPT !.wa = 0 - 1,
                                   !.pend = Append(d1.pend, <<d1.wa, byte>>)]
              ELSE d1
    IN  IF b.ce = LOW /\ b2.ce = HIGH THEN DevCommit(d2) ELSE d2

EnvVals(b, b2) ==
    IF WriteActive(b) /\ ~WriteActive(b2) /\ b.ddr # DDR_OUT THEN FloatVals ELSE {0}

\* The levels PIN_DATA can show.
PinValues(b, d) ==
    LET devVal == IF d.busy # 0 THEN (d.last + 128) % ByteMod
                  ELSE MemRead(d.mem, BusAddr(b))
    IN  IF DevDrives(b)
        THEN IF b.ddr = DDR_OUT THEN {devVal, b.port} ELSE {devVal}
        ELSE IF b.ddr = DDR_OUT THEN {b.port} ELSE FloatVals

\* A read during the write cycle is one of the samples the cycle lasts.
DevSampled(d, b) ==
    IF DevDrives(b) /\ d.busy > 0 THEN [d EXCEPT !.busy = d.busy - 1] ELSE d

\* delay(10) outlasts the write cycle of a device that keeps its timing.
DevDelayed(d) == IF d.busy > 0 THEN [d EXCEPT !.busy = 0] ELSE d


-----------------------------------------------------------------------------
(* Frames, and the steps every function is made of *)

Top == stk[Len(stk)]

Running(name) == stk # <<>> /\ Top.fn = name

SetTop(f) == [stk EXCEPT ![Len(stk)] = f]

\* The trace holds the primitives the top-level call itself has made.
Observe(ev) ==
    IF Len(stk) = 1 /\ obs.traced
    THEN [obs EXCEPT !.trace = Append(@, ev)] ELSE obs

BusAfter(b, ins) ==
    CASE ins[1] = "setAddr" -> setAddr(b, ins[2])
      [] ins[1] = "setData" -> setData(b, ins[2])
      [] ins[1] = "in"      -> dataInputMode(b)
      [] ins[1] = "out"     -> dataOutputMode(b)
      [] ins[1] = "+ce"     -> chipEnable(b)
      [] ins[1] = "-ce"     -> chipDisable(b)
      [] ins[1] = "+oe"     -> readEnable(b)
      [] ins[1] = "-oe"     -> readDisable(b)
      [] ins[1] = "+we"     -> writeEnable(b)
      [] ins[1] = "-we"     -> writeDisable(b)
      [] ins[1] = "led"     -> ledWrite(b, IF ins[2] = 1 THEN HIGH ELSE LOW)
      [] ins[1] = "pinMode" -> pinMode(b, ins[2])
      [] OTHER              -> b

\* One primitive: the ports change, the device reacts, the frame moves to f2.
Prim(ins, f2) ==
    LET b2 == BusAfter(bus, ins)
        d0 == IF ins[1] = "delay" THEN DevDelayed(dev) ELSE dev
    IN  /\ bus' = b2
        /\ \E x \in EnvVals(bus, b2) : dev' = DevReact(d0, bus, b2, x)
        /\ stk' = SetTop(f2)
        /\ obs' = Observe(ins)
        /\ UNCHANGED <<opsLeft, fastBaud, rx, cmd>>

\* The attempt of the top-level writeBlock has failed, in the way kind, at
\* byte i of the page.
Failed(o, kind, i) ==
    IF Len(stk) = 1 THEN [o EXCEPT !.fail = kind, !.at = i] ELSE o

\* A statement that touches no port.
Local(f2) ==
    /\ stk' = SetTop(f2)
    /\ UNCHANGED <<bus, dev, obs, opsLeft, fastBaud, rx, cmd>>

CallPoll(data, f2) ==
    /\ stk' = Append(SetTop(f2), [Frame("poll", 152) EXCEPT !.b = data])
    /\ obs' = Observe(<<"poll", data>>)
    /\ UNCHANGED <<bus, dev, opsLeft, fastBaud, rx, cmd>>

\* writeBlock(data, addr, len) called by a bulk operation.
CallBlock(data, addr, len, f2) ==
    /\ stk' = Append(SetTop(f2), [Frame("writeBlock", 180) EXCEPT
                                     !.a = addr, !.data = data, !.len = len])
    /\ obs' = Observe(<<"writeBlock", addr>>)
    /\ UNCHANGED <<bus, dev, opsLeft, fastBaud, rx, cmd>>

\* Return of a void top-level call, or of a callee to its caller.
Return(val) ==
    /\ IF Len(stk) = 1
       THEN /\ stk' = <<>>
            /\ obs' = [obs EXCEPT !.done = TRUE]
       ELSE /\ stk' = [SubSeq(stk, 1, Len(stk) - 1) EXCEPT ![Len(stk) - 1].r = val]
            /\ obs' = IF Len(stk) = 2 /\ obs.traced /\ Top.fn = "poll"
                      THEN [obs EXCEPT !.trace = Append(@, <<"polled", IF val THEN 1 ELSE 0>>)]
                      ELSE obs
    /\ UNCHANGED <<bus, dev, opsLeft, fastBaud, rx, cmd>>

\* A top-level call made by the command layer.
Call(f, traced) ==
    /\ stk = <<>>
    /\ opsLeft > 0
    /\ opsLeft' = opsLeft - 1
    /\ UNCHANGED <<fastBaud, rx, cmd>>
    /\ stk' = <<f>>
    /\ obs' = [a |-> f.a, b |-> f.b, data |-> f.data, len |-> f.len, op |-> f.fn,
               entry |-> bus, entryDev |-> dev, trace |-> <<>>,
               traced |-> traced, done |-> FALSE, ret |-> 0, prev |-> obs.op,
               pa |-> obs.a, pb |-> obs.b, fail |-> "none", at |-> 0]
    /\ UNCHANGED <<bus, dev>>

-----------------------------------------------------------------------------
(* Byte Transaction *)

readByte ==
    /\ Running("readByte")
    /\ LET f == Top
           nx == [f EXCEPT !.pc = f.pc + 1]
       IN  \/ f.pc = 141 /\ Prim(<<"setAddr", f.a>>, nx)
           \/ f.pc = 142 /\ Prim(<<"in", 0>>, nx)
           \/ f.pc = 143 /\ Prim(<<"+ce", 0>>, nx)
           \/ f.pc = 144 /\ Prim(<<"+oe", 0>>, nx)
           \/ /\ f.pc = 145
              /\ \E v \in PinValues(bus, dev) :
                    /\ stk' = SetTop([nx EXCEPT !.b = v])
                    /\ obs' = Observe(<<"sample", v>>)
                    /\ dev' = DevSampled(dev, bus)
              /\ UNCHANGED <<bus, opsLeft, fastBaud, rx, cmd>>
           \/ f.pc = 146 /\ Prim(<<"-oe", 0>>, nx)
           \/ f.pc = 147 /\ Prim(<<"-ce", 0>>, nx)
           \/ /\ f.pc = 148
              /\ stk' = <<>>
              /\ obs' = [obs EXCEPT !.done = TRUE, !.ret = f.b]
              /\ UNCHANGED <<bus, dev, opsLeft, fastBaud, rx, cmd>>

\* Faulty variant: every poll is reported as timed out.
PollResultNever(f) == FALSE

\* return counter > 0;
PollResult(f) == f.counter > 0

\* Faulty variant: the loop is left before the first sample.
PollLoopSkipped(f) == [f EXCEPT !.pc = 164]

\* Faulty variant: the loop goes on until the expected byte is sampled.
PollLoopNoBudget(f) == [f EXCEPT !.pc = IF f.inCycle THEN 159 ELSE 164]

\* while (inCycle && counter > 0)
PollLoop(f) == [f EXCEPT !.pc = IF f.inCycle /\ f.counter > 0 THEN 159 ELSE 164]

poll ==
    /\ Running("poll")
    /\ LET f == Top
           nx == [f EXCEPT !.pc = f.pc + 1]
       IN  \/ f.pc = 152 /\ Prim(<<"setData", 0>>, nx)
           \/ f.pc = 153 /\ Prim(<<"in", 0>>,
                                 [f EXCEPT !.pc = 157, !.counter = PollBudget,
                                           !.inCycle = TRUE])
           \/ f.pc = 157 /\ Prim(<<"+ce", 0>>, PollLoop(f))
           \/ f.pc = 159 /\ Prim(<<"+oe", 0>>, nx)
           \/ /\ f.pc = 160
              /\ \E v \in PinValues(bus, dev) :
                    /\ stk' = SetTop([f EXCEPT !.pc = 162,
                                               !.inCycle = (f.b # v),
                                               !.counter = (f.counter - 1) % WordMod])
                    /\ dev' = DevSampled(dev, bus)
              /\ UNCHANGED <<bus, obs, opsLeft, fastBaud, rx, cmd>>
           \/ f.pc = 162 /\ Prim(<<"-oe", 0>>, PollLoop(f))
           \/ f.pc = 164 /\ Prim(<<"-ce", 0>>, nx)
           \/ f.pc = 165 /\ Return(PollResult(f))

writeByte ==
    /\ Running("writeByte")
    /\ LET f == Top
           nx == [f EXCEPT !.pc = f.pc + 1]
       IN  \/ f.pc = 169 /\ Prim(<<"setAddr", f.a>>, nx)
           \/ f.pc = 170 /\ Prim(<<"out", 0>>, nx)
           \/ f.pc = 171 /\ Prim(<<"setData", f.b>>, nx)
           \/ f.pc = 172 /\ Prim(<<"+ce", 0>>, nx)
           \/ f.pc = 173 /\ Prim(<<"+we", 0>>, nx)
           \/ f.pc = 174 /\ Prim(<<"-we", 0>>, nx)
           \/ f.pc = 175 /\ Prim(<<"-ce", 0>>, nx)
           \/ f.pc = 176 /\ CallPoll(f.b, nx)
           \/ f.pc = 177 /\ Return(FALSE)


-----------------------------------------------------------------------------
(* Page Writer *)

\* Faulty variant: the length of the page is left out of the check.
OutOfRangeNoLen(addr, len) == addr > MAX_ADDR

\* addr > MAX_ADDR - len + 1, in 16-bit unsigned arithmetic
OutOfRange(addr, len) == addr > (MAX_ADDR - len + 1) % WordMod

\* Faulty variant: the loops address the byte after the one they mean.
ByteAddrNext(f) == (f.a + f.i + 1) % WordMod

\* Faulty variant: the read-back accepts whatever it samples.
MismatchNever(f, v) == FALSE

\* Faulty variant: the read-back compares the last byte of the page only.
MismatchLastOnly(f, v) == f.i + 1 = f.len /\ f.data[f.i + 1] # v

\* addr + i, as setAddr receives it
ByteAddr(f) == (f.a + f.i) % WordMod

\* Faulty variant: the read-back is entered whatever the poll returned.
AfterPollIgnored(f) == 204

\* Faulty variant: a failed poll ends the call.
AfterPollGivesUp(f) == IF ~f.r THEN 217 ELSE 204

\* if (!poll(data[len - 1])) goto writeBlock;
AfterPoll(f) == IF ~f.r THEN 191 ELSE 204

\* Faulty variant: the poll expects the first byte of the page.
PollByteFirst(f) == f.data[1]

\* poll(data[len - 1])
PollByte(f) == f.data[f.len]

\* data[i] != readData()
Mismatch(f, v) == f.data[f.i + 1] # v

writeBlock ==
    /\ Running("writeBlock")
    /\ LET f == Top
           nx == [f EXCEPT !.pc = f.pc + 1]
           at == ByteAddr(f)
       IN  \/ f.pc = 180 /\ Local([f EXCEPT !.pc = IF f.len = 0 THEN 181 ELSE 183])
           \/ f.pc = 183 /\ Local([f EXCEPT !.pc = IF f.len > PageLimit THEN 184 ELSE 186])
           \/ f.pc = 186 /\ Local([f EXCEPT !.pc = IF OutOfRange(f.a, f.len) THEN 187 ELSE 189])
           \/ f.pc \in {181, 184, 187} /\ Return(FALSE)
           \/ f.pc = 189 /\ Prim(<<"led", 1>>, [f EXCEPT !.pc = 191])
           \/ /\ f.pc = 191
              /\ bus' = dataOutputMode(bus)
              /\ dev' = DevReact(dev, bus, bus', 0)
              /\ stk' = SetTop(nx)
              /\ obs' = IF Len(stk) = 1 /\ obs.traced
                        THEN [obs EXCEPT !.trace = << <<"out", 0>> >>] ELSE obs
              /\ UNCHANGED <<opsLeft, fastBaud, rx, cmd>>
           \/ f.pc = 192 /\ Prim(<<"+ce", 0>>,
                                 [f EXCEPT !.i = 0, !.pc = IF 0 < f.len THEN 194 ELSE 199])
           \/ f.pc = 194 /\ Prim(<<"setAddr", at>>, [nx EXCEPT !.set = TRUE])
           \/ f.pc = 195 /\ Prim(<<"setData", f.data[f.i + 1]>>, nx)
           \/ f.pc = 196 /\ Prim(<<"+we", 0>>, nx)
           \/ f.pc = 197 /\ Prim(<<"-we", 0>>,
                                 [f EXCEPT !.i = f.i + 1,
                                           !.pc = IF f.i + 1 < f.len THEN 194 ELSE 199])
           \/ f.pc = 199 /\ Prim(<<"-ce", 0>>, nx)
           \/ f.pc = 200 /\ CallPoll(PollByte(f), nx)
           \/ /\ f.pc = 201
              /\ stk' = SetTop([f EXCEPT !.pc = AfterPoll(f)])
              /\ obs' = IF AfterPoll(f) = 191 THEN Failed(obs, "timeout", 0) ELSE obs
              /\ UNCHANGED <<bus, dev, opsLeft, fastBaud, rx, cmd>>
           \/ f.pc = 204 /\ Prim(<<"in", 0>>, nx)
           \/ f.pc = 205 /\ Prim(<<"+ce", 0>>, nx)
           \/ f.pc = 206 /\ Prim(<<"+oe", 0>>,
                                 [f EXCEPT !.i = 0, !.pc = IF 0 < f.len THEN 208 ELSE 215])
           \/ f.pc = 208 /\ Prim(<<"setAddr", at>>, nx)
           \/ /\ f.pc = 209
              /\ \E v \in PinValues(bus, dev) :
                    /\ stk' = SetTop(IF Mismatch(f, v)
                                     THEN [f EXCEPT !.pc = 210]
                                     ELSE [f EXCEPT !.i = f.i + 1,
                                                    !.pc = IF f.i + 1 < f.len
                                                           THEN 208 ELSE 215])
                    /\ obs' = IF Mismatch(f, v)
                              THEN Failed(Observe(<<"sample", v>>), "mismatch", f.i)
                              ELSE Observe(<<"sample", v>>)
                    /\ dev' = DevSampled(dev, bus)
              /\ UNCHANGED <<bus, opsLeft, fastBaud, rx, cmd>>
           \/ f.pc = 210 /\ Prim(<<"-oe", 0>>, nx)
           \/ f.pc = 211 /\ Prim(<<"-ce", 0>>, [f EXCEPT !.pc = 191])
           \/ f.pc = 215 /\ Prim(<<"-oe", 0>>, nx)
           \/ f.pc = 216 /\ Prim(<<"-ce", 0>>, nx)
           \/ f.pc = 217 /\ Prim(<<"led", 0>>, nx)
           \/ f.pc = 218 /\ Return(FALSE)

-----------------------------------------------------------------------------
(* Protection Sequencer: the primitives of unlock and lock, in program order *)

\* Faulty variant: the byte of the pulse is never put on the data bus.
PulseNoData(addr, data) ==
    << <<"setAddr", addr>>, <<"+we", 0>>, <<"-we", 0>> >>

Pulse(addr, data) ==
    << <<"setAddr", addr>>, <<"setData", data>>, <<"+we", 0>>, <<"-we", 0>> >>

\* Faulty variant: the fourth and fifth pulses are swapped.
unlockCodeSwapped ==
    << <<"out", 0>>, <<"+ce", 0>> >>
    \o Pulse(21845, 170) \o Pulse(10922, 85) \o Pulse(21845, 128)
    \o Pulse(10922, 85) \o Pulse(21845, 170) \o Pulse(21845, 32)
    \o << <<"-ce", 0>>, <<"delay", 10>> >>

unlockCode ==
    << <<"out", 0>>, <<"+ce", 0>> >>
    \o Pulse(21845, 170) \o Pulse(10922, 85) \o Pulse(21845, 128)
    \o Pulse(21845, 170) \o Pulse(10922, 85) \o Pulse(21845, 32)
    \o << <<"-ce", 0>>, <<"delay", 10>> >>

\* Faulty variant: the third pulse carries the byte of unlock's third pulse.
lockCodeWrongByte ==
    << <<"out", 0>>, <<"+ce", 0>> >>
    \o Pulse(21845, 170) \o Pulse(10922, 85) \o Pulse(21845, 128)
    \o << <<"-ce", 0>>, <<"delay", 10>> >>

lockCode ==
    << <<"out", 0>>, <<"+ce", 0>> >>
    \o Pulse(21845, 170) \o Pulse(10922, 85) \o Pulse(21845, 160)
    \o << <<"-ce", 0>>, <<"delay", 10>> >>

unlock ==
    /\ Running("unlock")
    /\ IF Top.pc <= Len(unlockCode)
       THEN Prim(unlockCode[Top.pc], [Top EXCEPT !.pc = Top.pc + 1])
       ELSE Return(FALSE)

lock ==
    /\ Running("lock")
    /\ IF Top.pc <= Len(lockCode)
       THEN Prim(lockCode[Top.pc], [Top EXCEPT !.pc = Top.pc + 1])
       ELSE Return(FALSE)

-----------------------------------------------------------------------------
(* Range dump *)

Min(x, y) == IF x < y THEN x ELSE y

Max(x, y) == IF x > y THEN x ELSE y

printBlock ==
    /\ Running("printBlock")
    /\ LET f == Top
           nx == [f EXCEPT !.pc = f.pc + 1]
       IN  \/ f.pc = 312 /\ Local([f EXCEPT !.pc = IF f.a > MAX_ADDR \/ f.b > MAX_ADDR
                                                   THEN 335 ELSE 315,
                                            !.i = Min(f.a, f.b), !.to = Max(f.a, f.b)])
           \/ f.pc = 315 /\ Prim(<<"in", 0>>, nx)
           \/ f.pc = 316 /\ Prim(<<"+ce", 0>>, nx)
           \/ f.pc = 317 /\ Prim(<<"+oe", 0>>, [f EXCEPT !.pc = IF f.i <= f.to THEN 323 ELSE 332])
           \/ f.pc = 323 /\ Prim(<<"setAddr", f.i>>, nx)
           \/ /\ f.pc = 324
              /\ \E v \in PinValues(bus, dev) :
                    /\ stk' = SetTop([f EXCEPT !.i = (f.i + 1) % WordMod,
                                               !.pc = IF (f.i + 1) % WordMod <= f.to
                                                      THEN 323 ELSE 332])
                    /\ obs' = Observe(<<"sample", v>>)
                    /\ dev' = DevSampled(dev, bus)
              /\ UNCHANGED <<bus, opsLeft, fastBaud, rx, cmd>>
           \/ f.pc = 332 /\ Prim(<<"-oe", 0>>, nx)
           \/ f.pc = 333 /\ Prim(<<"-ce", 0>>, [f EXCEPT !.pc = 335])
           \/ f.pc = 335 /\ Return(FALSE)


-----------------------------------------------------------------------------
(* Bulk Operations *)

RECURSIVE Fill(_, _)
Fill(n, v) == IF n = 0 THEN <<>> ELSE Append(Fill(n - 1, v), v)

\* Byte i of the serial stream, counted from 0.
SerialByte(i) == IF i % 2 = 0 THEN 66 ELSE 0

\* Faulty variant: a page begins in the middle of the page before it.
ZeroAddrHalfPage(f) == (f.i * 32) % WordMod

\* Faulty variant: the page index is used as the address.
ZeroAddrUnscaled(f) == f.i

\* i * sizeof(block)
ZeroAddr(f) == (f.i * BLOCK_SIZE) % WordMod

zero ==
    /\ Running("zero")
    /\ LET f == Top
       IN  \/ f.pc = 222 /\ Local([f EXCEPT !.pc = IF f.i < BLOCK_COUNT THEN 223 ELSE 225])
           \/ f.pc = 223 /\ CallBlock(Fill(BLOCK_SIZE, 0), ZeroAddr(f), BLOCK_SIZE,
                                       [f EXCEPT !.i = f.i + 1, !.pc = 222])
           \/ f.pc = 225 /\ Return(FALSE)

\* Faulty variant: the buffer is written when it is half full.
PageFullAtHalf(i) == i > 0 /\ i % 32 = 0

\* i > 0 && i % BLOCK_SIZE == 0
PageFull(i) == i > 0 /\ i % BLOCK_SIZE = 0

\* Faulty variant: the rest is written where a full page would have begun.
RestAddrOfFullPage(f) == (f.i - BLOCK_SIZE) % WordMod

\* i - (i % BLOCK_SIZE)
RestAddr(f) == f.i - (f.i % BLOCK_SIZE)

\* A byte is taken from the stream as soon as Serial.available() reports it.
file ==
    /\ Running("file")
    /\ LET f == Top
           k == f.i % BLOCK_SIZE
       IN  \/ f.pc = 337 /\ Local([f EXCEPT !.i = 0,
                                            !.pc = IF f.a > MAX_ADDR THEN 352 ELSE 340])
           \/ f.pc = 340 /\ Local([f EXCEPT !.pc = IF f.i < f.a THEN 342 ELSE 349])
           \/ f.pc = 342 /\ Local([f EXCEPT !.data[k + 1] = SerialByte(f.i),
                                            !.i = f.i + 1,
                                            !.pc = IF PageFull(f.i + 1)
                                                   THEN 345 ELSE 340])
           \/ f.pc = 345 /\ CallBlock(f.data, (f.i - BLOCK_SIZE) % WordMod, BLOCK_SIZE,
                                       [f EXCEPT !.pc = 340])
           \/ f.pc = 349 /\ Local([f EXCEPT !.pc = IF k # 0 THEN 350 ELSE 352])
           \/ f.pc = 350 /\ CallBlock(f.data, RestAddr(f), k, [f EXCEPT !.pc = 352])
           \/ f.pc = 352 /\ Return(FALSE)

-----------------------------------------------------------------------------
(* The state after setup(), and the calls the command layer makes *)

\* What the array may hold at power-up: erased, or with one byte programmed.
InitMems == {MemFill(255), MemWrite(MemFill(255), 16, 66)}

\* A run that starts with a device on which a poll can time out is kept to
\* MaxSlowOps calls.
InitWith(t, P, M, n) ==
    /\ bus = BusInit
    /\ dev \in {DevInit(m, p, t) : m \in M, p \in P}
    /\ stk = <<>>
    /\ obs = ObsInit
    /\ opsLeft = IF dev.prot \/ t = Unbounded THEN MaxSlowOps ELSE n
    /\ fastBaud = TRUE
    /\ rx = <<>>
    /\ cmd = <<>>

\* A device that ends every write cycle within MaxBusy samples.
Init == InitWith(MaxBusy, BOOLEAN, InitMems, MaxOps)

\* A device whose write cycle may last any time, or never end.
InitSlow == InitWith(Unbounded, {FALSE}, {MemFill(255)}, MaxOps)

AddrArgs == {0, 16, MAX_ADDR}

ByteArgs == {66, 0}

\* n bytes that alternate 66 and 0 and end in 66.
RECURSIVE PatternTo(_, _)
PatternTo(n, k) ==
    IF k = 0 THEN <<>>
    ELSE Append(PatternTo(n, k - 1), IF (n - k) % 2 = 0 THEN 66 ELSE 0)

Pattern(n) == PatternTo(n, n)

MaxLen == 2

\* Pages of 0..MaxLen bytes that end at address 16, at the last address,
\* one past it and beyond the array; a full page and one byte more than a
\* full page; a page at 16 whose first and last bytes a device of InitMems
\* may hold already, and whose middle byte it does not.
BlockAt(n) == {17 - n, MAX_ADDR - n + 1, MAX_ADDR - n + 2, 40000}

BlockArgs ==
    UNION {{[a |-> addr, data |-> Pattern(n), len |-> n] : addr \in BlockAt(n)} :
              n \in 0..MaxLen}
    \cup {[a |-> 64, data |-> Pattern(BLOCK_SIZE), len |-> BLOCK_SIZE],
          [a |-> 64, data |-> Pattern(BLOCK_SIZE + 1), len |-> BLOCK_SIZE + 1],
          [a |-> 16, data |-> <<66, 0, 255>>, len |-> 3]}

RangeArgs == {<<16, 17>>, <<MAX_ADDR, MAX_ADDR - 1>>, <<16, 40000>>}

ReadByteCall ==
    /\ stk = <<>>
    /\ \E addr \in AddrArgs : Call([Frame("readByte", 141) EXCEPT !.a = addr], TRUE)

WriteByteCall ==
    /\ stk = <<>>
    /\ \E addr \in AddrArgs, data \in ByteArgs :
        Call([Frame("writeByte", 169) EXCEPT !.a = addr, !.b = data], TRUE)

WriteBlockCall ==
    /\ stk = <<>>
    /\ \E x \in BlockArgs :
        Call([Frame("writeBlock", 180) EXCEPT !.data = x.data, !.a = x.a,
                                               !.len = x.len], TRUE)

UnlockCall == Call(Frame("unlock", 1), TRUE)

LockCall == Call(Frame("lock", 1), TRUE)

PrintBlockCall ==
    /\ stk = <<>>
    /\ \E x \in RangeArgs :
        Call([Frame("printBlock", 312) EXCEPT !.a = x[1], !.b = x[2]], TRUE)

\* The device ends its write cycle on its own.
DevCycleEnd ==
    /\ dev.busy # 0
    /\ dev' = [dev EXCEPT !.busy = 0]
    /\ UNCHANGED <<bus, stk, obs, opsLeft, fastBaud, rx, cmd>>

Next ==
    \/ ReadByteCall \/ WriteByteCall \/ WriteBlockCall
    \/ UnlockCall \/ LockCall \/ PrintBlockCall
    \/ readByte \/ poll \/ writeByte \/ writeBlock
    \/ unlock \/ lock \/ printBlock
    \/ DevCycleEnd

Spec == Init /\ [][Next]_vars

-----------------------------------------------------------------------------
(* The bulk operations, explored as the first call of a run *)

\* Stream lengths: empty, less than a page, a page, a page and a rest, two
\* pages and a rest, too long.
FileArgs == {0, 3, BLOCK_SIZE, BLOCK_SIZE + 3, 2 * BLOCK_SIZE + 2, 40000}

\* What the bytes of the uninitialised buffer of file() may be.
JunkVals == {0, 255}

ZeroCall ==
    /\ obs.op = "none"
    /\ Call(Frame("zero", 222), FALSE)

FileCall ==
    /\ obs.op = "none"
    /\ \E s \in FileArgs, j \in JunkVals :
        Call([Frame("file", 337) EXCEPT !.a = s, !.data = Fill(BLOCK_SIZE, j)], TRUE)

NextBulk == Next \/ ZeroCall \/ FileCall \/ zero \/ file

SpecBulk == Init /\ [][NextBulk]_vars

-----------------------------------------------------------------------------
(* The low-level commands of the serial console, one command per step *)

LowLevelIns == {<<"+ce", 0>>, <<"-ce", 0>>, <<"+we", 0>>, <<"-we", 0>>,
                <<"+oe", 0>>, <<"-oe", 0>>, <<"in", 0>>, <<"out", 0>>}

Passthrough(ins) ==
    /\ stk = <<>>
    /\ opsLeft > 0
    /\ opsLeft' = opsLeft - 1
    /\ UNCHANGED <<fastBaud, rx, cmd>>
    /\ bus' = BusAfter(bus, ins)
    /\ \E x \in EnvVals(bus, bus') : dev' = DevReact(dev, bus, bus', x)
    /\ UNCHANGED <<stk, obs>>

\* +chip, -chip, +write, -write, +read, -read, in, out
LowLevelCmd == \E ins \in LowLevelIns : Passthrough(ins)

\* addr <addr>
AddrCmd == \E addr \in AddrArgs : Passthrough(<<"setAddr", addr>>)

\* data <data>
DataCmd == \E data \in ByteArgs : Passthrough(<<"setData", data>>)

\* get
GetCmd ==
    /\ stk = <<>>
    /\ opsLeft > 0
    /\ opsLeft' = opsLeft - 1
    /\ UNCHANGED <<fastBaud, rx, cmd>>
    /\ dev' = DevSampled(dev, bus)
    /\ UNCHANGED <<bus, stk, obs>>

NextCmd == Next \/ LowLevelCmd \/ AddrCmd \/ DataCmd \/ GetCmd

SpecCmd == Init /\ [][NextCmd]_vars

SpecSlow == InitSlow /\ [][Next]_vars

-----------------------------------------------------------------------------
(* The protection commands and reads, in runs of MaxProtOps calls on a      *)
(* device that starts protected or unprotected                             *)

InitProt ==
    /\ bus = BusInit
    /\ dev \in {DevInit(m, p, MaxBusy) : m \in InitMems, p \in BOOLEAN}
    /\ stk = <<>>
    /\ obs = ObsInit
    /\ opsLeft = MaxProtOps
    /\ fastBaud = TRUE
    /\ rx = <<>>
    /\ cmd = <<>>

NextProt ==
    \/ LockCall \/ UnlockCall \/ ReadByteCall
    \/ lock \/ unlock \/ readByte
    \/ DevCycleEnd

SpecProt == InitProt /\ [][NextProt]_vars

-----------------------------------------------------------------------------
(* zero and byte reads, on an unprotected device that keeps its timing *)

\* An unprotected device that ends every write cycle within MaxBusy samples.
InitHealthy == InitWith(MaxBusy, {FALSE}, InitMems, MaxOps)

NextZero ==
    \/ ZeroCall \/ ReadByteCall
    \/ zero \/ writeBlock \/ poll \/ readByte
    \/ DevCycleEnd

SpecZero == InitHealthy /\ [][NextZero]_vars

-----------------------------------------------------------------------------
(* file and byte reads, on an unprotected device that keeps its timing *)

NextFile ==
    \/ FileCall \/ ReadByteCall
    \/ file \/ writeBlock \/ poll \/ readByte
    \/ DevCycleEnd

SpecFile == InitHealthy /\ [][NextFile]_vars

-----------------------------------------------------------------------------
(* Startup: setup runs initPins on ports whose content is not known and     *)
(* whose control pins are still inputs.  A pin written HIGH while it is an *)
(* input is pulled up, and driven once pinMode has made it an output.      *)

setFastBaud == TRUE

setSlowBaud == FALSE

\* Faulty variant: the console never reports the fast rate.
isFastBaudNever == FALSE

isFastBaud == fastBaud

initPins ==
    /\ Running("initPins")
    /\ LET f == Top
           nx == [f EXCEPT !.pc = f.pc + 1]
       IN  \/ f.pc = 625 /\ Prim(<<"-ce", 0>>, nx)
           \/ f.pc = 626 /\ Prim(<<"pinMode", PIN_CE>>, nx)
           \/ f.pc = 627 /\ Prim(<<"-we", 0>>, nx)
           \/ f.pc = 628 /\ Prim(<<"pinMode", PIN_WE>>, nx)
           \/ f.pc = 629 /\ Prim(<<"-oe", 0>>, nx)
           \/ f.pc = 630 /\ Prim(<<"pinMode", PIN_OE>>, [f EXCEPT !.pc = 632])
           \/ f.pc = 632 /\ Local(nx)
           \/ f.pc = 633 /\ Local([f EXCEPT !.pc = 636])
           \/ f.pc = 636 /\ Prim(<<"out", 0>>, nx)
           \/ f.pc = 637 /\ Prim(<<"setAddr", 0>>, nx)
           \/ f.pc = 638 /\ Prim(<<"setData", 0>>, [f EXCEPT !.pc = 641])
           \/ f.pc = 641 /\ Local(nx)
           \/ f.pc = 642 /\ Return(FALSE)

setup ==
    /\ Running("setup")
    /\ LET f == Top
           nx == [f EXCEPT !.pc = f.pc + 1]
       IN  \/ /\ f.pc = 645
              /\ stk' = Append(SetTop(nx), Frame("initPins", 625))
              /\ UNCHANGED <<bus, dev, obs, opsLeft, fastBaud, rx, cmd>>
           \/ /\ f.pc = 646
              /\ stk' = SetTop(nx)
              /\ fastBaud' = setFastBaud
              /\ UNCHANGED <<rx, cmd>>
              /\ UNCHANGED <<bus, dev, obs, opsLeft>>
           \/ f.pc = 647 /\ Prim(<<"delay", 1>>, nx)
           \/ f.pc = 648 /\ Return(FALSE)

\* The ports when setup is entered: control pins that are inputs, any latch
\* content; a reset leaves every latch at 0.
PowerOnPorts ==
    {[BusInit EXCEPT !.ce = c, !.we = w, !.oe = o, !.ddr = d, !.port = p,
                     !.addrLo = l, !.addrHi = h, !.outs = {}] :
        c \in {LOW, HIGH}, w \in {LOW, HIGH}, o \in {LOW, HIGH},
        d \in {DDR_IN, DDR_OUT}, p \in ByteArgs, l \in {0, 255},
        h \in {0, 127, 128}}

InitBoot ==
    /\ bus \in PowerOnPorts
    /\ dev \in {DevInit(m, FALSE, MaxBusy) : m \in InitMems}
    /\ stk = <<Frame("setup", 645)>>
    /\ obs = [ObsInit EXCEPT !.op = "setup", !.entry = bus]
    /\ opsLeft = MaxOps
    /\ fastBaud = TRUE
    /\ rx = <<>>
    /\ cmd = <<>>

NextBoot ==
    \/ setup
    \/ initPins
    \/ ReadByteCall
    \/ readByte

SpecBoot == InitBoot /\ [][NextBoot]_vars

-----------------------------------------------------------------------------
(* setAddr applied to any port state, bit 7 of PORT_ADDR_HI included, and   *)
(* to addresses on both sides of MAX_ADDR                                  *)

Levels == {LOW, HIGH}

PortStates ==
    {[BusInit EXCEPT !.ce = c, !.we = w, !.oe = o, !.ddr = d, !.port = p,
                     !.addrHi = h] :
        c \in Levels, w \in Levels, o \in Levels, d \in {DDR_IN, DDR_OUT},
        p \in ByteArgs, h \in {0, 128}}

SetAddrArgs == {0, 255, 256, 21845, MAX_ADDR, MAX_ADDR + 1, MAX_ADDR + 100, 65535}

InitSetAddr ==
    /\ bus \in PortStates
    /\ dev = DevInit(MemFill(255), FALSE, MaxBusy)
    /\ stk = <<>>
    /\ obs = ObsInit
    /\ opsLeft = MaxOps
    /\ fastBaud = TRUE
    /\ rx = <<>>
    /\ cmd = <<>>

SetAddrCall ==
    /\ opsLeft > 0
    /\ opsLeft' = opsLeft - 1
    /\ UNCHANGED <<fastBaud, rx, cmd>>
    /\ \E addr \in SetAddrArgs :
          /\ bus' = setAddr(bus, addr)
          /\ obs' = [obs EXCEPT !.a = addr, !.op = "setAddr", !.entry = bus]
    /\ UNCHANGED <<dev, stk>>

SpecSetAddr == InitSetAddr /\ [][SetAddrCall]_vars

-----------------------------------------------------------------------------
(* A byte write followed by byte reads, on an unprotected device that keeps *)
(* its timing or does not                                                  *)

InitWriteRead ==
    /\ bus = BusInit
    /\ dev \in {DevInit(MemFill(255), FALSE, t) : t \in {MaxBusy, Unbounded}}
    /\ stk = <<>>
    /\ obs = ObsInit
    /\ opsLeft = MaxOps
    /\ fastBaud = TRUE
    /\ rx = <<>>
    /\ cmd = <<>>

FirstWriteByteCall == obs.op = "none" /\ WriteByteCall

NextWriteRead ==
    \/ FirstWriteByteCall \/ ReadByteCall
    \/ writeByte \/ poll \/ readByte
    \/ DevCycleEnd

SpecWriteRead == InitWriteRead /\ [][NextWriteRead]_vars

-----------------------------------------------------------------------------
(* One writeBlock of a page near address 16 on a device that never shows   *)
(* the bytes of the page: its write cycle never ends, or it is protected.   *)
(* The processor keeps executing the call it is in.                         *)

InitStuck ==
    \/ InitWith(Unbounded, {FALSE}, {MemFill(255)}, MaxSlowOps)
    \/ InitWith(MaxBusy, {TRUE}, {MemWrite(MemFill(255), 16, 66)}, MaxSlowOps)

StuckBlockCall ==
    /\ stk = <<>>
    /\ \E x \in {y \in BlockArgs : y.a <= 17} :
        Call([Frame("writeBlock", 180) EXCEPT !.data = x.data, !.a = x.a,
                                               !.len = x.len], TRUE)

NextStuck ==
    \/ StuckBlockCall
    \/ writeBlock
    \/ poll

SpecStuck ==
    InitStuck /\ [][NextStuck]_vars /\ WF_vars(writeBlock) /\ WF_vars(poll)

-----------------------------------------------------------------------------
(* The calls that are not built on writeBlock, on a device that keeps its   *)
(* timing, is protected, or ends its write cycle when it likes or never.    *)
(* The processor keeps executing the call it is in; the device owes nothing.*)

InitAnyDevice ==
    \/ InitWith(Unbounded, {FALSE}, {MemFill(255)}, MaxSlowOps)
    \/ InitWith(MaxBusy, BOOLEAN, InitMems, MaxSlowOps)

NextBounded ==
    \/ ReadByteCall \/ WriteByteCall \/ UnlockCall \/ LockCall \/ PrintBlockCall
    \/ readByte \/ poll \/ writeByte \/ unlock \/ lock \/ printBlock
    \/ DevCycleEnd

SpecBounded ==
    /\ InitAnyDevice /\ [][NextBounded]_vars
    /\ WF_vars(readByte) /\ WF_vars(poll) /\ WF_vars(writeByte)
    /\ WF_vars(unlock) /\ WF_vars(lock) /\ WF_vars(printBlock)

-----------------------------------------------------------------------------
(* The commands slow, fast and file! of the serial console, on a device    *)
(* that keeps its timing                                                    *)

MaxCmds == 4

\* What readInt can make of the size: -1 for a number too large, or a size.
SizeArgs == {0 - 1, 0, 3, BLOCK_SIZE + 3}

InitBaud ==
    /\ bus = BusInit
    /\ dev = DevInit(MemFill(255), FALSE, MaxBusy)
    /\ stk = <<>>
    /\ obs = ObsInit
    /\ opsLeft = MaxCmds
    /\ fastBaud = setFastBaud
    /\ rx = <<>>
    /\ cmd = <<>>

\* A command that ends without a call of the engine.
Answered(name) ==
    [obs EXCEPT !.op = name, !.entry = bus, !.entryDev = dev, !.trace = <<>>,
                !.done = TRUE, !.prev = obs.op]

\* slow
SlowCmd ==
    /\ stk = <<>>
    /\ opsLeft > 0
    /\ opsLeft' = opsLeft - 1
    /\ fastBaud' = setSlowBaud
    /\ UNCHANGED <<rx, cmd>>
    /\ obs' = Answered("slow")
    /\ UNCHANGED <<bus, dev, stk>>

\* fast
FastCmd ==
    /\ stk = <<>>
    /\ opsLeft > 0
    /\ opsLeft' = opsLeft - 1
    /\ fastBaud' = setFastBaud
    /\ UNCHANGED <<rx, cmd>>
    /\ obs' = Answered("fast")
    /\ UNCHANGED <<bus, dev, stk>>

\* file! <size>
FileCmd ==
    /\ stk = <<>>
    /\ opsLeft > 0
    /\ \E s \in SizeArgs, j \in JunkVals :
          IF isFastBaud \/ s < 0
          THEN /\ opsLeft' = opsLeft - 1
               /\ obs' = Answered("error")
               /\ UNCHANGED <<bus, dev, stk, fastBaud, rx, cmd>>
          ELSE Call([Frame("file", 337) EXCEPT !.a = s, !.data = Fill(BLOCK_SIZE, j)],
                    TRUE)

NextBaud ==
    \/ SlowCmd
    \/ FastCmd
    \/ FileCmd
    \/ file
    \/ writeBlock
    \/ poll
    \/ DevCycleEnd

SpecBaud == InitBaud /\ [][NextBaud]_vars

-----------------------------------------------------------------------------
(* The dump of the whole array: readall of at28c256.ino (pc is a line of   *)
(* that file) and the command all of the later revisions                   *)

readall ==
    /\ Running("readall")
    /\ LET f == Top
           nx == [f EXCEPT !.pc = f.pc + 1]
       IN  \/ f.pc = 278 /\ Prim(<<"in", 0>>, nx)
           \/ f.pc = 279 /\ Prim(<<"+ce", 0>>, nx)
           \/ f.pc = 280 /\ Prim(<<"+oe", 0>>,
                                 [f EXCEPT !.i = 0, !.pc = IF 0 < MAX_ADDR THEN 286 ELSE 294])
           \/ f.pc = 286 /\ Prim(<<"setAddr", f.i>>, nx)
           \/ /\ f.pc = 287
              /\ \E v \in PinValues(bus, dev) :
                    /\ stk' = SetTop([f EXCEPT !.i = (f.i + 1) % WordMod,
                                               !.pc = IF (f.i + 1) % WordMod < MAX_ADDR
                                                      THEN 286 ELSE 294])
                    /\ obs' = Observe(<<"sample", v>>)
                    /\ dev' = DevSampled(dev, bus)
              /\ UNCHANGED <<bus, opsLeft, fastBaud, rx, cmd>>
           \/ f.pc = 294 /\ Prim(<<"-oe", 0>>, nx)
           \/ f.pc = 295 /\ Prim(<<"-ce", 0>>, nx)
           \/ f.pc = 296 /\ Return(FALSE)

\* readall
ReadallCmd == Call(Frame("readall", 278), FALSE)

\* all
AllCmd ==
    Call([Frame("printBlock", 312) EXCEPT !.a = 0, !.b = MAX_ADDR], FALSE)

InitDump == InitWith(MaxBusy, BOOLEAN, InitMems, MaxSlowOps)

NextDump ==
    \/ ReadallCmd
    \/ AllCmd
    \/ readall
    \/ printBlock

SpecDump == InitDump /\ [][NextDump]_vars

-----------------------------------------------------------------------------
(* One page write or bulk operation on an unprotected device that ends     *)
(* every write cycle within MaxBusy samples.  The processor keeps executing *)
(* the call it is in, and the bytes of the stream keep arriving.            *)

InitOnce == InitWith(MaxBusy, {FALSE}, {MemFill(255)}, MaxSlowOps)

NextOnce ==
    \/ WriteBlockCall
    \/ ZeroCall
    \/ FileCall
    \/ writeBlock
    \/ poll
    \/ zero
    \/ file
    \/ DevCycleEnd

SpecOnce ==
    /\ InitOnce /\ [][NextOnce]_vars
    /\ WF_vars(writeBlock) /\ WF_vars(poll) /\ WF_vars(zero) /\ WF_vars(file)

-----------------------------------------------------------------------------
(* writeBlock of at28c256.ino (pc is a line of that file) next to the       *)
(* writeBlock of the later revisions.  The poll of at28c256.ino (lines      *)
(* 131-146) differs from the later one only in decrementing the counter     *)
(* after readDisable instead of before it, and is the same step machine.    *)

writeBlockOld ==
    /\ Running("writeBlockOld")
    /\ LET f == Top
           nx == [f EXCEPT !.pc = f.pc + 1]
       IN  \/ f.pc = 160 /\ Local([f EXCEPT !.pc = IF f.len = 0 THEN 161 ELSE 163])
           \/ f.pc = 163 /\ Local([f EXCEPT !.pc = IF f.len > PageLimit THEN 164 ELSE 166])
           \/ f.pc = 166 /\ Local([f EXCEPT !.pc = IF OutOfRange(f.a, f.len) THEN 167 ELSE 169])
           \/ f.pc \in {161, 164, 167} /\ Return(FALSE)
           \/ f.pc = 169 /\ Prim(<<"led", 1>>, [f EXCEPT !.pc = 171])
           \/ /\ f.pc = 171
              /\ bus' = dataOutputMode(bus)
              /\ dev' = DevReact(dev, bus, bus', 0)
              /\ stk' = SetTop(nx)
              /\ obs' = IF Len(stk) = 1 /\ obs.traced
                        THEN [obs EXCEPT !.trace = << <<"out", 0>> >>] ELSE obs
              /\ UNCHANGED <<opsLeft, fastBaud, rx, cmd>>
           \/ f.pc = 172 /\ Prim(<<"+ce", 0>>,
                                 [f EXCEPT !.i = 0, !.pc = IF 0 < f.len THEN 174 ELSE 179])
           \/ f.pc = 174 /\ Prim(<<"setAddr", ByteAddr(f)>>, nx)
           \/ f.pc = 175 /\ Prim(<<"setData", f.data[f.i + 1]>>, nx)
           \/ f.pc = 176 /\ Prim(<<"+we", 0>>, nx)
           \/ f.pc = 177 /\ Prim(<<"-we", 0>>,
                                 [f EXCEPT !.i = f.i + 1,
                                           !.pc = IF f.i + 1 < f.len THEN 174 ELSE 179])
           \/ f.pc = 179 /\ Prim(<<"-ce", 0>>, nx)
           \/ f.pc = 180 /\ CallPoll(f.data[f.len], nx)
           \/ f.pc = 181 /\ Local([f EXCEPT !.pc = IF ~f.r THEN 171 ELSE 184])
           \/ f.pc = 184 /\ Prim(<<"led", 0>>, nx)
           \/ f.pc = 185 /\ Return(FALSE)

OldBlockCall ==
    /\ stk = <<>>
    /\ \E x \in BlockArgs :
        Call([Frame("writeBlockOld", 160) EXCEPT !.data = x.data, !.a = x.a,
                                                  !.len = x.len], TRUE)

InitRevisions == InitWith(MaxBusy, BOOLEAN, InitMems, MaxSlowOps)

NextRevisions ==
    \/ WriteBlockCall
    \/ OldBlockCall
    \/ writeBlock
    \/ writeBlockOld
    \/ poll
    \/ DevCycleEnd

SpecRevisions == InitRevisions /\ [][NextRevisions]_vars

-----------------------------------------------------------------------------
(* initPins alone, as part_000 has it and as at28c256.ino and part_001     *)
(* have it (pc of initPinsOld is a line of at28c256.ino)                   *)

initPinsOld ==
    /\ Running("initPinsOld")
    /\ LET f == Top
           nx == [f EXCEPT !.pc = f.pc + 1]
       IN  \/ f.pc = 430 /\ Prim(<<"pinMode", PIN_CE>>, nx)
           \/ f.pc = 431 /\ Prim(<<"pinMode", PIN_WE>>, nx)
           \/ f.pc = 432 /\ Prim(<<"pinMode", PIN_OE>>, nx)
           \/ f.pc = 433 /\ Prim(<<"-ce", 0>>, nx)
           \/ f.pc = 434 /\ Prim(<<"-we", 0>>, nx)
           \/ f.pc = 435 /\ Prim(<<"-oe", 0>>, [f EXCEPT !.pc = 437])
           \/ f.pc = 437 /\ Local(nx)
           \/ f.pc = 438 /\ Local([f EXCEPT !.pc = 441])
           \/ f.pc = 441 /\ Prim(<<"out", 0>>, nx)
           \/ f.pc = 442 /\ Prim(<<"setAddr", 0>>, nx)
           \/ f.pc = 443 /\ Prim(<<"setData", 0>>, [f EXCEPT !.pc = 446])
           \/ f.pc = 446 /\ Local(nx)
           \/ f.pc = 447 /\ Return(FALSE)

InitPinsOnly ==
    /\ bus \in PowerOnPorts
    /\ dev \in {DevInit(m, FALSE, MaxBusy) : m \in InitMems}
    /\ stk \in {<<Frame("initPins", 625)>>, <<Frame("initPinsOld", 430)>>}
    /\ obs = [ObsInit EXCEPT !.op = stk[1].fn, !.entry = bus]
    /\ opsLeft = MaxOps
    /\ fastBaud = TRUE
    /\ rx = <<>>
    /\ cmd = <<>>

NextPinsOnly ==
    \/ initPins
    \/ initPinsOld

SpecPinsOnly == InitPinsOnly /\ [][NextPinsOnly]_vars

-----------------------------------------------------------------------------
(* The command line: prompt reads characters from the serial line into cmd *)
(* while the line delivers them at any pace (pc = line of part_000)        *)

CmdSize == 255
NL == 10
MaxRx == 2
LineCap == CmdSize + 1
Chars == {NL, 120}

\* cmd[n] = c, for the index the code computes, inside the array or not:
\* cell n of the buffer is element n + 1, cells never stored hold 0.
Store(buf, n, c) ==
    [k \in 1..Max(Len(buf), n + 1) |->
        IF k = n + 1 THEN c ELSE IF k <= Len(buf) THEN buf[k] ELSE 0]

\* while (Serial.available())
MoreToRead(f) == rx # <<>>

\* The serial line delivers one more character.
Arrive ==
    /\ Running("prompt")
    /\ Len(rx) < MaxRx
    /\ \E c \in Chars : rx' = Append(rx, c)
    /\ UNCHANGED <<bus, dev, stk, obs, opsLeft, fastBaud, cmd>>

\* obs.len counts the characters of the line read so far, up to LineCap.
prompt ==
    /\ Running("prompt")
    /\ LET f == Top
           nx == [f EXCEPT !.pc = f.pc + 1]
       IN  \/ f.pc = 358 /\ Local(nx)
           \/ f.pc = 359 /\ Local([f EXCEPT !.i = 0, !.pc = 361])
           \/ /\ f.pc = 361
              /\ stk' = SetTop([f EXCEPT !.i = 0, !.pc = 362])
              /\ obs' = [obs EXCEPT !.len = 0]
              /\ UNCHANGED <<bus, dev, opsLeft, fastBaud, rx, cmd>>
           \/ f.pc = 362 /\ Local(nx)
           \/ f.pc = 363 /\ Local([f EXCEPT !.pc = IF f.i < 255 THEN 364 ELSE 376])
           \/ f.pc = 364 /\ Local([f EXCEPT !.pc = IF MoreToRead(f) THEN 365 ELSE 372])
           \/ /\ f.pc = 365
              /\ stk' = SetTop([f EXCEPT !.b = Head(rx), !.pc = 366])
              /\ rx' = Tail(rx)
              /\ UNCHANGED <<bus, dev, obs, opsLeft, fastBaud, cmd>>
           \/ f.pc = 366 /\ Local([f EXCEPT !.pc = IF f.b = NL THEN 367 ELSE 370])
           \/ /\ f.pc = 367
              /\ cmd' = Store(cmd, f.i, 0)
              /\ stk' = SetTop(nx)
              /\ UNCHANGED <<bus, dev, obs, opsLeft, fastBaud, rx>>
           \/ f.pc = 368 /\ Return(FALSE)
           \/ /\ f.pc = 370
              /\ cmd' = Store(cmd, f.i, f.b)
              /\ stk' = SetTop([f EXCEPT !.i = (f.i + 1) % ByteMod, !.pc = 364])
              /\ obs' = [obs EXCEPT !.len = Min(@ + 1, LineCap)]
              /\ UNCHANGED <<bus, dev, opsLeft, fastBaud, rx>>
           \/ f.pc = 372 /\ Prim(<<"delay", 1>>, [f EXCEPT !.pc = 363])
           \/ f.pc = 376 /\ Local([f EXCEPT !.pc = IF rx # <<>> THEN 377 ELSE 382])
           \/ /\ f.pc = 377
              /\ stk' = SetTop([f EXCEPT !.pc = IF Head(rx) = NL THEN 378 ELSE 376])
              /\ rx' = Tail(rx)
              /\ UNCHANGED <<bus, dev, obs, opsLeft, fastBaud, cmd>>
           \/ /\ f.pc = 378
              /\ stk' = SetTop(nx)
              /\ obs' = [obs EXCEPT !.fail = "command too long"]
              /\ UNCHANGED <<bus, dev, opsLeft, fastBaud, rx, cmd>>
           \/ f.pc = 379 /\ Local([f EXCEPT !.pc = 361])
           \/ f.pc = 382 /\ Prim(<<"delay", 1>>, [f EXCEPT !.pc = 376])

\* loop() calls prompt.
PromptCall == Call(Frame("prompt", 358), FALSE)

InitPrompt ==
    /\ bus = BusInit
    /\ dev = DevInit(MemFill(255), FALSE, MaxBusy)
    /\ stk = <<>>
    /\ obs = ObsInit
    /\ opsLeft = 1
    /\ fastBaud = setFastBaud
    /\ rx = <<>>
    /\ cmd = <<>>

NextPrompt ==
    \/ PromptCall
    \/ prompt
    \/ Arrive

SpecPrompt == InitPrompt /\ [][NextPrompt]_vars

-----------------------------------------------------------------------------
(* Properties of the engine calls *)

\* writeBlock's preconditions, in unbounded arithmetic.
ValidBlock(addr, len) == 1 <= len /\ len <= 64 /\ addr + len - 1 <= MAX_ADDR

\* The running or last top-level call is an accepted writeBlock.
AcceptedBlock == obs.op = "writeBlock" /\ ValidBlock(obs.a, obs.len)

InPage(x) == obs.a <= x /\ x <= obs.a + obs.len - 1

\* Some byte of the page differed from the array when the call was made.
PageDiffers ==
    \E k \in 1..obs.len : MemRead(obs.entryDev.mem, obs.a + k - 1) # obs.data[k]

EndsWith(t, u) == Len(t) >= Len(u) /\ SubSeq(t, Len(t) - Len(u) + 1, Len(t)) = u

Count(t, ev) == Cardinality({k \in 1..Len(t) : t[k] = ev})

CountKind(t, kind) == Cardinality({k \in 1..Len(t) : t[k][1] = kind})

\* C1: a composite operation entered with chip-enable, write-enable and
\* output-enable high returns with all three high, so the lines are idle
\* whenever no call runs, and whenever zero or file is between two pages.
C1_IdleBetweenCalls ==
    /\ (stk = <<>> /\ Idle(obs.entry)) => Idle(bus)
    /\ (stk # <<>> /\ Top.fn \in {"zero", "file"} /\ Idle(obs.entry)) => Idle(bus)

\* A stream of a page and a rest has been loaded and file has returned.
C1_FileReturnedIdle ==
    /\ stk = <<>> /\ obs.op = "file" /\ obs.done /\ obs.a > BLOCK_SIZE
    /\ Idle(obs.entry) /\ Idle(bus)
    /\ CountKind(obs.trace, "writeBlock") = 2
    /\ dev.mem # obs.entryDev.mem

\* C2: write-enable and output-enable are never asserted at the same time,
\* whatever commands the console receives.
C2_WriteReadExclusive == ~(bus.we = LOW /\ bus.oe = LOW)

\* Both lines asserted by console commands alone, with the chip selected.
C2_BothAssertedByConsole ==
    stk = <<>> /\ obs.op = "none" /\ bus.we = LOW /\ bus.oe = LOW

\* C3: an accepted writeBlock returns only from an attempt whose one poll
\* succeeded and whose read-back sampled data[i] at addr + i for every i.
RECURSIVE ReadBack(_, _, _)
ReadBack(data, addr, n) ==
    IF n = 0 THEN <<>>
    ELSE ReadBack(data, addr, n - 1)
         \o << <<"setAddr", addr + n - 1>>, <<"sample", data[n]>> >>

VerifiedTail(data, addr, n) ==
    << <<"polled", 1>>, <<"in", 0>>, <<"+ce", 0>>, <<"+oe", 0>> >>
    \o ReadBack(data, addr, n)
    \o << <<"-oe", 0>>, <<"-ce", 0>>, <<"led", 0>> >>

C3_ReturnsOnlyVerified ==
    (AcceptedBlock /\ obs.done) =>
        /\ EndsWith(obs.trace, VerifiedTail(obs.data, obs.a, obs.len))
        /\ CountKind(obs.trace, "polled") = 1
        /\ CountKind(obs.trace, "sample") = obs.len

C3_FullPageVerified ==
    /\ AcceptedBlock /\ obs.done /\ obs.len = BLOCK_SIZE
    /\ PageDiffers
    /\ \A k \in 1..obs.len : MemRead(dev.mem, obs.a + k - 1) = obs.data[k]

\* C4: poll returns true exactly when its last sample equalled the expected
\* byte, so a timeout is reported only after a budget without a match.
C4_PollTrueIffMatched ==
    (Running("poll") /\ Top.pc = 165) => (PollResult(Top) <=> ~Top.inCycle)

C4_MatchReportedAsTimeout ==
    Running("poll") /\ Top.pc = 165 /\ ~Top.inCycle /\ ~PollResult(Top)

\* C5: a writeBlock whose length is 0 or above 64, or whose last byte lies
\* beyond MAX_ADDR, returns with no port changed and no primitive called;
\* every other writeBlock passes the checks and is carried out.
C5_InvalidBlockIsNoOp ==
    obs.op = "writeBlock" =>
        IF ValidBlock(obs.a, obs.len)
        THEN /\ stk # <<>> => stk[1].pc \notin {181, 184, 187}
             /\ obs.done => /\ obs.trace # <<>>
                            /\ obs.trace[Len(obs.trace)] = <<"led", 0>>
        ELSE /\ bus = obs.entry
             /\ obs.trace = <<>>
             /\ stk # <<>> => Len(stk) = 1 /\ Top.pc < 189

\* A page whose second byte would lie one address beyond the array.
C5_RejectedAtArrayEnd ==
    /\ obs.op = "writeBlock" /\ obs.done
    /\ obs.len = 2 /\ obs.a = MAX_ADDR
    /\ bus = obs.entry /\ dev.mem = obs.entryDev.mem

C7_ProtectedNeverReturns ==
    (AcceptedBlock /\ obs.entryDev.prot) => ~obs.done

\* C7: an accepted writeBlock to a protected device whose array differs from
\* the page in some byte never returns.
C7_ProtectedDifferingNeverReturns ==
    (AcceptedBlock /\ obs.entryDev.prot /\ PageDiffers) => ~obs.done

\* The poll succeeded on the last byte, the read-back failed on an earlier one.
C7_ProtectedRetry ==
    /\ AcceptedBlock /\ obs.entryDev.prot /\ PageDiffers
    /\ Len(stk) = 1 /\ Top.pc = 211 /\ dev.mem = obs.entryDev.mem

\* C8: readByte sets the address, switches the data bus to input, asserts
\* chip-enable, asserts output-enable, samples once, deasserts output-enable,
\* deasserts chip-enable and returns the sample; write-enable stays high.
C8_ReadByteSequence ==
    /\ (obs.op = "readByte" /\ obs.done) =>
          /\ obs.trace = << <<"setAddr", obs.a>>, <<"in", 0>>, <<"+ce", 0>>,
                            <<"+oe", 0>>, <<"sample", obs.ret>>,
                            <<"-oe", 0>>, <<"-ce", 0>> >>
          /\ bus.ddr = DDR_IN /\ BusAddr(bus) = Min(obs.a, MAX_ADDR)
    /\ (Running("readByte") /\ Top.pc = 146) =>
          /\ bus.ce = LOW /\ bus.oe = LOW /\ bus.ddr = DDR_IN
          /\ BusAddr(bus) = Min(obs.a, MAX_ADDR)
          /\ Top.b = MemRead(dev.mem, BusAddr(bus))
    /\ Running("readByte") => bus.we = HIGH

C8_ReadProgrammedByte ==
    obs.op = "readByte" /\ obs.done /\ obs.ret = 66 /\ Idle(bus)

\* C9: writeByte sets the address, switches the data bus to output, drives
\* the byte, asserts chip-enable, pulses write-enable once, deasserts
\* chip-enable and polls once for the byte; it returns after that poll
\* whatever the poll reports.
C9_WriteByteSequence ==
    /\ (obs.op = "writeByte" /\ obs.done) =>
          /\ \E r \in {0, 1} :
                obs.trace = << <<"setAddr", obs.a>>, <<"out", 0>>,
                               <<"setData", obs.b>>, <<"+ce", 0>>, <<"+we", 0>>,
                               <<"-we", 0>>, <<"-ce", 0>>, <<"poll", obs.b>>,
                               <<"polled", r>> >>
          /\ Idle(bus)
    /\ (obs.op = "writeByte" /\ stk # <<>> /\ bus.we = LOW) =>
          /\ Len(stk) = 1 /\ Top.pc = 174
          /\ bus.ce = LOW /\ bus.oe = HIGH /\ bus.ddr = DDR_OUT
          /\ bus.port = obs.b /\ BusAddr(bus) = Min(obs.a, MAX_ADDR)

C9_ReturnedAfterTimeout ==
    /\ obs.op = "writeByte" /\ obs.done
    /\ obs.trace[Len(obs.trace)] = <<"polled", 0>>
    /\ Count(obs.trace, <<"+we", 0>>) = 1

\* C10: unlock makes six write pulses, (0x5555, 0xAA), (0x2AAA, 0x55),
\* (0x5555, 0x80), (0x5555, 0xAA), (0x2AAA, 0x55), (0x5555, 0x20), each after
\* its address and data are set, in one chip-enable assertion with the data
\* bus driven, never asserts output-enable, never polls, and deasserts
\* chip-enable before the delay.
UnlockPulses == << <<21845, 170>>, <<10922, 85>>, <<21845, 128>>,
                   <<21845, 170>>, <<10922, 85>>, <<21845, 32>> >>

RECURSIVE PulseEvents(_, _)
PulseEvents(P, n) ==
    IF n = 0 THEN <<>>
    ELSE PulseEvents(P, n - 1)
         \o << <<"setAddr", P[n][1]>>, <<"setData", P[n][2]>>,
               <<"+we", 0>>, <<"-we", 0>> >>

C10_UnlockSequence ==
    /\ (obs.op = "unlock" /\ obs.done) =>
          obs.trace = << <<"out", 0>>, <<"+ce", 0>> >>
                      \o PulseEvents(UnlockPulses, 6)
                      \o << <<"-ce", 0>>, <<"delay", 10>> >>
    /\ Running("unlock") =>
          /\ Len(stk) = 1 /\ bus.oe = HIGH
          /\ bus.we = LOW => bus.ce = LOW /\ bus.ddr = DDR_OUT
          /\ dev.pend = SubSeq(UnlockPulses, 1, Len(dev.pend))
          /\ bus.ce = LOW => Count(obs.trace, <<"+ce", 0>>) = 1

C10_ProtectionRemoved ==
    obs.op = "unlock" /\ obs.done /\ obs.entryDev.prot /\ ~dev.prot /\ Idle(bus)

\* C11: lock makes three write pulses, (0x5555, 0xAA), (0x2AAA, 0x55),
\* (0x5555, 0xA0), each after its address and data are set, in one
\* chip-enable assertion with the data bus driven, never asserts
\* output-enable, never polls, and deasserts chip-enable before the delay.
LockPulses == << <<21845, 170>>, <<10922, 85>>, <<21845, 160>> >>

C11_LockSequence ==
    /\ (obs.op = "lock" /\ obs.done) =>
          obs.trace = << <<"out", 0>>, <<"+ce", 0>> >>
                      \o PulseEvents(LockPulses, 3)
                      \o << <<"-ce", 0>>, <<"delay", 10>> >>
    /\ Running("lock") =>
          /\ Len(stk) = 1 /\ bus.oe = HIGH
          /\ bus.we = LOW => bus.ce = LOW /\ bus.ddr = DDR_OUT
          /\ dev.pend = SubSeq(LockPulses, 1, Len(dev.pend))
          /\ bus.ce = LOW => Count(obs.trace, <<"+ce", 0>>) = 1

C11_ProtectionSet ==
    obs.op = "lock" /\ obs.done /\ ~obs.entryDev.prot /\ dev.prot /\ Idle(bus)

\* C12: a lock called right after a lock finds the device protected and
\* leaves its protection flag and its array as they were, so two calls leave
\* what one call leaves; likewise unlock after unlock, with the device
\* unprotected.
C12_ProtectionIdempotent ==
    (obs.done /\ obs.prev = obs.op /\ obs.op \in {"lock", "unlock"}) =>
        /\ obs.entryDev.prot = (obs.op = "lock")
        /\ dev.prot = obs.entryDev.prot
        /\ dev.mem = obs.entryDev.mem
        /\ dev.busy = 0 /\ dev.pend = <<>>

\* The last of three calls is the second unlock in a row.
C12_UnlockedTwice ==
    /\ obs.done /\ obs.op = "unlock" /\ obs.prev = "unlock" /\ opsLeft = 0
    /\ ~dev.prot /\ dev.mem # MemFill(255)

\* C13 as stated: on an unprotected device, readByte(a) called right after
\* writeByte(b, a) returns b.
C13_WriteThenRead ==
    (obs.done /\ obs.op = "readByte" /\ obs.prev = "writeByte"
        /\ obs.pa = obs.a /\ ~obs.entryDev.prot) => obs.ret = obs.pb

\* C13: on an unprotected device, readByte(a) called right after
\* writeByte(b, a) returns b if the write cycle has ended by then, and it
\* has ended whenever the poll of writeByte succeeded.
C13_WriteThenReadAfterCycle ==
    /\ (obs.done /\ obs.op = "readByte" /\ obs.prev = "writeByte"
          /\ obs.pa = obs.a /\ ~obs.entryDev.prot /\ obs.entryDev.busy = 0)
       => obs.ret = obs.pb
    /\ (obs.done /\ obs.op = "writeByte" /\ ~obs.entryDev.prot
          /\ obs.trace[Len(obs.trace)] = <<"polled", 1>>)
       => dev.busy = 0 /\ MemRead(dev.mem, obs.a) = obs.b

\* The byte read at the last address differs from what the array held there.
C13_ReadBackNewByte ==
    /\ obs.done /\ obs.op = "readByte" /\ obs.prev = "writeByte"
    /\ obs.pa = obs.a /\ obs.a = MAX_ADDR /\ ~obs.entryDev.prot
    /\ obs.ret = 66 /\ obs.ret = obs.pb

\* C14: after each page of zero the array holds 0 at every address up to the
\* end of that page; when zero has returned it holds 0 at every address and
\* the device is ready, and a readByte called next returns 0.
C14_ZeroThenRead ==
    /\ (Running("zero") /\ Top.pc = 222 /\ Top.i > 0) =>
          /\ dev.mem[0] = 0 /\ dev.busy = 0
          /\ \A d \in DOMAIN dev.mem : d = 0 \/ d >= Top.i * BLOCK_SIZE
    /\ (obs.op = "zero" /\ obs.done) => dev.mem = MemFill(0) /\ dev.busy = 0
    /\ (obs.op = "readByte" /\ obs.prev = "zero" /\ obs.done) => obs.ret = 0

\* The last address, which held 255 before, is read after zero.
C14_ReadZeroAtEnd ==
    /\ obs.op = "readByte" /\ obs.prev = "zero" /\ obs.done
    /\ obs.a = MAX_ADDR /\ obs.ret = 0

\* Start addresses a caller of the stream loader may ask for.
StartArgs == {0, BLOCK_SIZE}

C16_SetAddrClamps ==
    obs.op = "setAddr" =>
        /\ (bus.addrHi % 128) * 256 + bus.addrLo = Min(obs.a, MAX_ADDR)
        /\ bus.addrHi \div 128 = obs.entry.addrHi \div 128
        /\ bus.addrLo \in 0..255 /\ bus.addrHi \in 0..255
        /\ bus = [obs.entry EXCEPT !.addrLo = bus.addrLo, !.addrHi = bus.addrHi]

\* MAX_ADDR + 100 was asked for while bit 7 was set and lines were asserted.
C16_ClampedAboveMax ==
    /\ obs.op = "setAddr" /\ obs.a = MAX_ADDR + 100
    /\ obs.entry.addrHi = 128 /\ obs.entry.we = LOW /\ obs.entry.ddr = DDR_IN
    /\ bus.addrHi = 255 /\ bus.addrLo = 255

\* C17: once initPins has completed, and until the first command, chip-enable,
\* write-enable and output-enable are deasserted, the data direction is output,
\* and the address and data latches are zero.
C17_InitPinsLeavesIdle ==
    (obs.op = "setup" /\ (stk = <<>> \/ (Top.fn = "setup" /\ Top.pc > 645))) =>
        /\ bus.ce = HIGH /\ bus.we = HIGH /\ bus.oe = HIGH
        /\ bus.ddr = DDR_OUT
        /\ BusAddr(bus) = 0
        /\ bus.port = 0
        /\ bus = [BusInit EXCEPT !.addrHi = (obs.entry.addrHi \div 128) * 128]

\* setup has returned although it found lines asserted, the data bus an input
\* and both latches loaded.
C17_SetupDoneFromAsserted ==
    /\ obs.op = "setup" /\ obs.done /\ stk = <<>>
    /\ obs.entry.ce = LOW /\ obs.entry.we = LOW /\ obs.entry.oe = LOW
    /\ obs.entry.ddr = DDR_IN /\ obs.entry.port = 66
    /\ obs.entry.addrLo = 255 /\ obs.entry.addrHi = 127
    /\ bus = BusInit

\* C18: in every engine operation started from the idle state, retries of
\* writeBlock included, output-enable is low only while the data direction is
\* input; so the direction is never output, nor switched to output, while
\* output-enable is low.
C18_NoBusContention ==
    /\ bus.oe = LOW => bus.ddr = DDR_IN
    /\ (stk # <<>> /\ Top.fn = "writeBlock" /\ Top.pc \in {191, 192}) => bus.oe = HIGH

\* Output-enable is low in the read-back of an attempt that follows a failed
\* one.
C18_ReadBackInRetry ==
    /\ AcceptedBlock /\ Len(stk) = 1 /\ Top.pc = 209 /\ obs.fail = "mismatch"
    /\ bus.oe = LOW /\ bus.ddr = DDR_IN /\ bus.ce = LOW

\* C19: every attempt of an accepted writeBlock switches the data direction to
\* output, asserts chip-enable once, then for i = 0..len-1 in this order sets
\* address addr + i, puts data[i] on the data port and pulses write-enable once,
\* with output-enable high throughout, then deasserts chip-enable and polls
\* once, expecting data[len - 1].
RECURSIVE WritePhase(_, _, _)
WritePhase(data, addr, n) ==
    IF n = 0 THEN <<>>
    ELSE WritePhase(data, addr, n - 1)
         \o << <<"setAddr", addr + n - 1>>, <<"setData", data[n]>>,
               <<"+we", 0>>, <<"-we", 0>> >>

C19_AttemptSequence ==
    /\ (AcceptedBlock /\ Len(stk) = 2) =>
          /\ Top.fn = "poll" /\ Top.b = obs.data[obs.len]
          /\ CountKind(obs.trace, "poll") = 1
    /\ (AcceptedBlock /\ Len(stk) = 1) =>
        /\ Top.pc = 201 =>
              obs.trace = << <<"out", 0>>, <<"+ce", 0>> >>
                          \o WritePhase(obs.data, obs.a, obs.len)
                          \o << <<"-ce", 0>>, <<"poll", obs.data[obs.len]>>,
                                <<"polled", IF Top.r THEN 1 ELSE 0>> >>
        /\ Top.pc \in 192..200 => bus.oe = HIGH /\ bus.ddr = DDR_OUT
        /\ Top.pc = 197 =>
              /\ bus.ce = LOW /\ bus.we = LOW
              /\ BusAddr(bus) = obs.a + Top.i
              /\ bus.port = obs.data[Top.i + 1]

\* The poll of a second attempt has returned, after the two pulses of a page
\* whose bytes differ.
C19_SecondAttemptPolled ==
    /\ AcceptedBlock /\ Len(stk) = 1 /\ Top.pc = 201
    /\ obs.fail = "timeout" /\ obs.len = 2 /\ obs.data[1] # obs.data[2]
    /\ CountKind(obs.trace, "+we") = 2

\* C20: an attempt of an accepted writeBlock fails when its poll returns false
\* or at the first byte of the read-back that differs; either way the next step
\* of writeBlock is the retry label, reached with output-enable and chip-enable
\* high, and the attempt that follows pulses write-enable for every byte of the
\* page from byte 0 on.
C20_FailedAttemptRetried ==
    /\ [][(AcceptedBlock /\ Len(stk) = 1
             /\ ((Top.pc = 201 /\ ~Top.r) \/ Top.pc = 211))
           => (/\ Len(stk') = 1 /\ stk'[1].pc = 191
               /\ bus'.oe = HIGH /\ bus'.ce = HIGH /\ bus'.we = HIGH
               /\ obs'.fail # "none")]_vars
    /\ []((AcceptedBlock /\ Len(stk) = 1 /\ Top.pc = 210) =>
            /\ obs.fail = "mismatch" /\ obs.at = Top.i
            /\ obs.trace[Len(obs.trace) - 1] = <<"setAddr", obs.a + obs.at>>
            /\ obs.trace[Len(obs.trace)][1] = "sample"
            /\ obs.trace[Len(obs.trace)][2] # obs.data[obs.at + 1]
            /\ EndsWith(SubSeq(obs.trace, 1, Len(obs.trace) - 2),
                        << <<"+oe", 0>> >> \o ReadBack(obs.data, obs.a, obs.at)))
    /\ []((AcceptedBlock /\ Len(stk) = 1 /\ obs.fail # "none" /\ Top.pc = 199) =>
            obs.trace = << <<"out", 0>>, <<"+ce", 0>> >>
                        \o WritePhase(obs.data, obs.a, obs.len))

\* The read-back failed at the second byte, and the retry has asserted
\* write-enable for the first byte again.
C20_FirstByteRewritten ==
    /\ AcceptedBlock /\ Len(stk) = 1 /\ obs.fail = "mismatch" /\ obs.at = 1
    /\ Top.pc = 197 /\ Top.i = 0 /\ bus.we = LOW /\ BusAddr(bus) = obs.a

\* C21: an accepted writeBlock to a device that never shows the page (its
\* write cycle never ends, or it is protected and holds other bytes) never
\* returns, and starts a further attempt again and again.
NeverShown == obs.entryDev.tWC = Unbounded \/ (obs.entryDev.prot /\ PageDiffers)

C21_RetriesForever ==
    /\ []((AcceptedBlock /\ NeverShown) => ~obs.done)
    /\ (AcceptedBlock /\ NeverShown)
          ~> (Len(stk) = 1 /\ Top.pc = 191 /\ obs.fail # "none")

\* A page is at the retry label after a poll that used up its budget on a
\* device whose write cycle does not end.
C21_RetryAfterBudget ==
    /\ AcceptedBlock /\ obs.entryDev.tWC = Unbounded
    /\ Len(stk) = 1 /\ Top.pc = 191 /\ obs.fail = "timeout" /\ Idle(bus)

\* C22: poll samples only while its budget of 4096 is not used up, and ends;
\* every readByte, writeByte, unlock, lock and printBlock returns, whatever
\* the device does.
C22_BoundedCallsReturn ==
    /\ [](Running("poll") =>
            /\ Top.counter \in 0..PollBudget
            /\ Top.pc \in {159, 160} => Top.counter > 0)
    /\ Running("poll") ~> ~Running("poll")
    /\ (stk # <<>>) ~> (stk = <<>> /\ obs.done)

\* The poll of a writeByte has used up its budget and is about to return.
C22_PollBudgetUsedUp ==
    /\ Len(stk) = 2 /\ stk[1].fn = "writeByte"
    /\ Top.fn = "poll" /\ Top.pc = 165 /\ Top.counter = 0 /\ Top.inCycle

\* C23: zero calls writeBlock once for each i = 0..511, in this order, with
\* address 64 * i and 64 zero bytes; each call passes the checks of writeBlock,
\* and the 512 pages, each beginning where the one before it ended, begin at 0
\* and end at MAX_ADDR.
C23_ZeroPages ==
    /\ []((stk # <<>> /\ stk[1].fn = "zero") =>
            /\ stk[1].i \in 0..BLOCK_COUNT
            /\ stk[1].pc = 223 => stk[1].i < BLOCK_COUNT
            /\ stk[1].pc = 225 =>
                  stk[1].i = 512 /\ stk[1].i * 64 = MAX_ADDR + 1
            /\ Len(stk) >= 2 =>
                  /\ stk[2].fn = "writeBlock"
                  /\ stk[2].a = 64 * (stk[1].i - 1)
                  /\ stk[2].len = 64
                  /\ stk[2].data = [k \in 1..64 |-> 0]
                  /\ stk[2].a + stk[2].len - 1 <= MAX_ADDR
                  /\ stk[2].pc \notin {181, 184, 187})
    /\ [][(stk # <<>> /\ stk[1].fn = "zero" /\ stk' # <<>>) =>
            IF Len(stk) = 1 /\ Len(stk') = 2
            THEN stk'[1].i = stk[1].i + 1 /\ stk'[2].a = 64 * stk[1].i
            ELSE stk'[1].i = stk[1].i]_vars

\* The last of the 512 pages has just been handed to writeBlock.
C23_LastPageCalled ==
    /\ Len(stk) = 2 /\ stk[1].fn = "zero" /\ stk[1].i = BLOCK_COUNT
    /\ stk[2].pc = 180 /\ stk[2].a = MAX_ADDR - 63

\* C24: file(N), N <= MAX_ADDR, takes N bytes from the stream.  It calls
\* writeBlock only when 64 bytes have come in since the last call or the
\* stream has ended, each time with the bytes received since the last call
\* and with the address of the first of them, so the calls are at 0, 64, 128,
\* ... and are N \div 64 full pages, then one page of N % 64 bytes if that is
\* not 0.
PagesOf(n) == (n + BLOCK_SIZE - 1) \div BLOCK_SIZE

C24_FilePages ==
    (stk # <<>> /\ stk[1].fn = "file" /\ obs.a <= MAX_ADDR) =>
        /\ stk[1].i \in 0..obs.a
        /\ stk[1].pc \in {349, 350, 352} => stk[1].i = obs.a
        /\ obs.trace = [k \in 1..Len(obs.trace) |-> <<"writeBlock", 64 * (k - 1)>>]
        /\ Len(obs.trace) = CASE stk[1].pc = 345 -> stk[1].i \div 64 - 1
                               [] stk[1].pc = 352 -> PagesOf(obs.a)
                               [] OTHER -> stk[1].i \div 64
        /\ Len(stk) >= 2 =>
              /\ stk[2].fn = "writeBlock"
              /\ stk[2].a = 64 * (Len(obs.trace) - 1)
              /\ stk[2].a + stk[2].len = stk[1].i
              /\ stk[2].len = 64 \/ (stk[1].i = obs.a /\ stk[2].len = obs.a % 64)
              /\ stk[2].len > 0
              /\ \A k \in 1..stk[2].len : stk[2].data[k] = SerialByte(stk[2].a + k - 1)

\* The two bytes that follow two full pages have just been handed to
\* writeBlock, in a buffer that still holds bytes of the page before.
C24_RestAfterTwoPages ==
    /\ Len(stk) = 2 /\ stk[1].fn = "file" /\ obs.a = 130
    /\ stk[2].pc = 180 /\ stk[2].a = 128 /\ stk[2].len = 2
    /\ Len(obs.trace) = 3 /\ stk[2].data[3] = SerialByte(66)

\* C25: the console starts at the fast rate; only slow leaves it and fast
\* returns to it; file! at the fast rate answers with an error and touches
\* neither the ports nor the device nor the stream, so file runs only while
\* the rate is slow, which a slow command has set since the last fast one.
C25_FileOnlyWhenSlow ==
    /\ [](obs.op = "none" => fastBaud)
    /\ []((stk # <<>> /\ stk[1].fn = "file") => ~fastBaud /\ obs.op = "file")
    /\ [][(fastBaud /\ ~fastBaud') => obs'.op = "slow"]_vars
    /\ [][(obs' # obs /\ obs'.op = "fast") => fastBaud']_vars
    /\ [][(stk = <<>> /\ fastBaud /\ obs' # obs) =>
            /\ stk' = <<>> /\ bus' = bus /\ dev' = dev
            /\ obs'.op \in {"slow", "fast", "error"}]_vars

\* A stream of a page and a rest is being loaded after the commands fast and
\* slow.
C25_LoadAfterFastSlow ==
    /\ Len(stk) = 2 /\ stk[1].fn = "file" /\ stk[1].i = BLOCK_SIZE + 3
    /\ obs.prev = "slow" /\ opsLeft = MaxCmds - 3 /\ ~fastBaud

\* C26: the dump of the whole array, readall or all, samples address i in its
\* round i, with chip-enable and output-enable low, the data direction input
\* and write-enable high, leaves its loop when address MAX_ADDR has been
\* sampled, and returns with the control lines idle.
Dumping == stk # <<>> /\ obs.op \in {"readall", "printBlock"}

C26_DumpSamplesEveryAddress ==
    /\ Dumping => bus.we = HIGH
    /\ (Dumping /\ Top.pc \in {287, 324}) =>
          /\ BusAddr(bus) = Top.i /\ Top.i <= MAX_ADDR
          /\ bus.ce = LOW /\ bus.oe = LOW /\ bus.ddr = DDR_IN
    /\ (Dumping /\ Top.pc \in {294, 332}) => Top.i = MAX_ADDR + 1
    /\ (obs.op \in {"readall", "printBlock"} /\ obs.done) => Idle(bus)

\* readall has left its loop and the last address it sampled is MAX_ADDR - 1.
C26_ReadallStopsShort ==
    /\ Running("readall") /\ Top.pc = 294
    /\ Top.i = MAX_ADDR /\ BusAddr(bus) = MAX_ADDR - 1

\* C27: on an unprotected device that keeps its timing, every call of
\* writeBlock, zero and file returns: while a call runs, the function on top
\* is at a line where it has a step to take, never at a line of the retry
\* branch, and every step, of the program or of the device, lowers a bound on
\* the number of steps that remain, so the call cannot go on forever.
StepsOfPoll(f) ==
    CASE f.pc = 152 -> 3 * PollBudget + 5
      [] f.pc = 153 -> 3 * PollBudget + 4
      [] f.pc = 157 -> 3 * f.counter + 3
      [] f.pc = 159 -> 3 * f.counter + 2
      [] f.pc = 160 -> 3 * f.counter + 1
      [] f.pc = 162 -> 3 * f.counter + 3
      [] f.pc = 164 -> 2
      [] OTHER      -> 1

\* From the poll of a page of n bytes on, and from the call of writeBlock on.
StepsFromPoll(n) == 2 * n + 9 + 3 * PollBudget + 5

StepsOfPage(n) == 6 * n + StepsFromPoll(n) + MaxBusy + 7

StepsOfBlock(f) ==
    CASE f.pc \in {181, 184, 187, 218} -> 1
      [] f.pc \in 215..217 -> 219 - f.pc
      [] f.pc \in {208, 209} -> 2 * (f.len - f.i) + 212 - f.pc
      [] f.pc \in 204..206 -> 2 * f.len + 211 - f.pc
      [] f.pc = 201 -> 2 * f.len + 8
      [] f.pc = 200 -> StepsFromPoll(f.len)
      [] f.pc = 199 -> StepsFromPoll(f.len) + MaxBusy + 1
      [] f.pc \in 194..197 ->
            4 * (f.len - f.i) + 194 - f.pc + StepsFromPoll(f.len) + MaxBusy + 1
      [] f.pc = 192 -> 4 * f.len + StepsFromPoll(f.len) + MaxBusy + 2
      [] f.pc = 191 -> 4 * f.len + StepsFromPoll(f.len) + MaxBusy + 3
      [] f.pc = 189 -> 4 * f.len + StepsFromPoll(f.len) + MaxBusy + 4
      [] f.pc = 186 -> 4 * f.len + StepsFromPoll(f.len) + MaxBusy + 5
      [] f.pc = 183 -> 4 * f.len + StepsFromPoll(f.len) + MaxBusy + 6
      [] f.pc = 180 -> 6 * f.len + StepsFromPoll(f.len) + MaxBusy + 7
      [] OTHER -> 2 * StepsOfPage(BLOCK_SIZE + 1)

StepsOfZero(f) ==
    CASE f.pc = 222 -> (BLOCK_COUNT - f.i) * (StepsOfPage(BLOCK_SIZE) + 3) + 2
      [] f.pc = 223 -> (BLOCK_COUNT - f.i) * (StepsOfPage(BLOCK_SIZE) + 3) + 1
      [] OTHER      -> 1

StepsOfFile(f) ==
    LET page == StepsOfPage(BLOCK_SIZE)
        left == IF f.a > f.i THEN f.a - f.i ELSE 0
    IN  CASE f.pc = 337 -> (f.a + 1) * (page + 4) + 1
          [] f.pc = 340 -> (left + 1) * (page + 4)
          [] f.pc = 342 -> (left + 1) * (page + 4) - 1
          [] f.pc = 345 -> (left + 1) * (page + 4) + page + 1
          [] f.pc = 349 -> page + 3
          [] f.pc = 350 -> page + 2
          [] OTHER      -> 1

StepsOf(f) ==
    CASE f.fn = "poll"       -> StepsOfPoll(f)
      [] f.fn = "writeBlock" -> StepsOfBlock(f)
      [] f.fn = "zero"       -> StepsOfZero(f)
      [] f.fn = "file"       -> StepsOfFile(f)
      [] OTHER               -> 0

RECURSIVE StepsLeft(_, _)
StepsLeft(s, d) ==
    IF s = <<>> THEN d.busy
    ELSE StepsOf(s[Len(s)]) + StepsLeft(SubSeq(s, 1, Len(s) - 1), d)

\* The lines at which the step of the running function is defined.
AtAStep(f) ==
    CASE f.fn = "poll"       -> f.pc \in {152, 153, 157, 159, 160, 162, 164, 165}
      [] f.fn = "writeBlock" -> f.pc \in {180, 181, 183, 184, 186, 187, 189}
                                        \cup (191..192) \cup (194..197)
                                        \cup (199..201) \cup (204..206)
                                        \cup {208, 209} \cup (215..218)
      [] f.fn = "zero"       -> f.pc \in {222, 223, 225}
      [] f.fn = "file"       -> f.pc \in {337, 340, 342, 345, 349, 350, 352}
      [] OTHER               -> FALSE

C28_RevisionsLeaveThePage ==
    (obs.op \in {"writeBlock", "writeBlockOld"} /\ ValidBlock(obs.a, obs.len)
       /\ obs.done) =>
        /\ \A k \in 1..obs.len : MemRead(dev.mem, obs.a + k - 1) = obs.data[k]
        /\ CountKind(obs.trace, "sample") = obs.len

\* The writeBlock of at28c256.ino has returned from a protected device that
\* holds the last byte of the page and not the first.
C28_OldReturnsUnverified ==
    /\ obs.op = "writeBlockOld" /\ ValidBlock(obs.a, obs.len) /\ obs.done
    /\ obs.entryDev.prot /\ dev.mem = obs.entryDev.mem
    /\ MemRead(dev.mem, obs.a) # obs.data[1]
    /\ CountKind(obs.trace, "sample") = 0

\* C29: in the startup of every revision no control line is ever driven low:
\* none of the three pins is an output while the level written to it is low,
\* so write-enable and output-enable are never driven low together.
C29_NoControlLineDrivenLow ==
    obs.op \in {"initPins", "initPinsOld"} =>
        /\ DrivenLow(bus) = {}
        /\ ~(PIN_WE \in DrivenLow(bus) /\ PIN_OE \in DrivenLow(bus))

\* After a reset the initPins of at28c256.ino has made the three pins outputs
\* and has not yet written a level to any of them.
C29_AllThreeDrivenLow ==
    /\ Running("initPinsOld") /\ Top.pc = 433
    /\ obs.entry.ce = LOW /\ obs.entry.we = LOW /\ obs.entry.oe = LOW
    /\ obs.entry.port = 0 /\ obs.entry.ddr = DDR_IN
    /\ obs.entry.addrLo = 0 /\ obs.entry.addrHi = 0
    /\ DrivenLow(bus) = {PIN_CE, PIN_WE, PIN_OE}

\* C30: prompt stores no character outside cmd[0..254], its counter n counts
\* the characters of the line and never wraps, and it never returns a line
\* of 255 or more characters.
C30_PromptStaysInBuffer ==
    /\ Len(cmd) <= CmdSize
    /\ (Running("prompt") /\ Top.pc \in 363..372) => Top.i = obs.len
    /\ (obs.op = "prompt" /\ obs.done) => obs.len < CmdSize

\* A line of 255 characters and its newline, read in one burst: the
\* terminator is stored at cmd[255] and the line is returned.
C30_TerminatorPastTheEnd ==
    /\ obs.op = "prompt" /\ obs.done
    /\ obs.len = CmdSize
    /\ Len(cmd) = CmdSize + 1
    /\ cmd[CmdSize + 1] = 0
    /\ obs.fail = "none"

=============================================================================
